---- MODULE Spec2Model ----
(***************************************************************************)
(* Session memory (src/lib/memory.ts), the memory endpoint                 *)
(* (src/app/api/memory/route.ts) and the text generation endpoint          *)
(* (src/app/api/pollinations/text/route.ts) of deep-ai.                    *)
(*                                                                         *)
(* Texts are sequences of tokens (a token is one character of caller text  *)
(* or one fixed piece of literal text of the source).  The database behind *)
(* `db.chatMemory` is not part of the sources; it is modelled as one table *)
(* of rows carrying a createdAt timestamp, kept in the order in which a    *)
(* query `orderBy createdAt asc` returns them.                             *)
(***************************************************************************)
EXTENDS Integers, Sequences, FiniteSets, TLC

\* ------------------------------------------------------------------ bounds
MaxCalls == 2        \* handler invocations in one behaviour
MaxClock == 1        \* the latest millisecond timestamp (the first is 0)

\* ---------------------------------------------------------- program constants
ContextLimit == 10   \* chatMemory.getMemory(10)
DefaultTemperature == 7     \* 0.7, temperatures being counted in tenths
DefaultMaxTokens == 1000

Min(a, b) == IF a <= b THEN a ELSE b

\* --------------------------------------------------------------- session ids
\* A session id argument is absent (undefined / null), the empty string, a
\* string chosen by a caller, or a string minted by generateSessionId.
NoId == [k |-> "absent", n |-> 0]
EmptyId == [k |-> "empty", n |-> 0]
CallerId(i) == [k |-> "caller", n |-> i]
Minted(i) == [k |-> "minted", n |-> i]
NoMemory == [k |-> "null", n |-> 0]

\* JavaScript truthiness of a session id argument.
Truthy(s) == s.k \in {"caller", "minted"}

\* ---------------------------------------------------------------- texts
Space == " "
Chars == {Space, "h"}
NoText == <<>>

RECURSIVE TrimStart(_)
TrimStart(t) ==
  IF t # <<>> /\ Head(t) = Space THEN TrimStart(Tail(t)) ELSE t

RECURSIVE TrimEnd(_)
TrimEnd(t) ==
  IF t # <<>> /\ t[Len(t)] = Space THEN TrimEnd(SubSeq(t, 1, Len(t) - 1)) ELSE t

Trim(t) == TrimEnd(TrimStart(t))

VARIABLES
  store,          \* rows of db.chatMemory, in `orderBy createdAt asc` order
  clock,          \* the database's current timestamp
  appends,        \* rows created so far (also numbers the rows)
  currentMemory,  \* the module-level singleton of memory.ts (its session id)
  minted,         \* session ids minted so far
  calls,          \* handler invocations so far
  returned,       \* session ids returned to callers by completed calls
  envKey,         \* whether process.env.OPENAI_API_KEY is set
  req             \* the request handlers: position, locals and result

vars == <<store, clock, appends, currentMemory, minted, calls, returned, envKey, req>>

MaxSlots == 2        \* handlers that can be in progress together
MaxTurns == 3        \* the longest turn sequence given to formatMemoryForPrompt
Slots == 1..MaxSlots

\* ------------------------------------------------------------- the database
\* One row of db.chatMemory.  `no` (the number of the create that made the row)
\* and `by` (the Generate call that made it, 0 for the memory endpoint) are
\* bookkeeping; the program never reads them.
NewRow(sid, role, content, by) ==
  [sid |-> sid, role |-> role, content |-> content, createdAt |-> 0,
   no |-> appends + 1, by |-> by]

InsertAt(s, i, x) == SubSeq(s, 1, i - 1) \o <<x>> \o SubSeq(s, i, Len(s))

\* Rows strictly older than `now`: a new row stamped `now` sorts after them, and
\* `orderBy createdAt` fixes nothing about its place among rows stamped `now`.
Older(s, now) == Cardinality({i \in 1..Len(s) : s[i].createdAt < now})

\* The times a create can happen at: the time of the previous create or later
\* (up to MaxClock); only later ones when the behaviour has no equal timestamps.
Stamps(P) == IF P.ties THEN clock..Min(clock + 1, MaxClock) ELSE {clock + 1}

\* db.chatMemory.create: the row is stamped with the current time.
dbCreate(P, row) ==
  \E now \in Stamps(P) :
    \E pos \in (Older(store, now) + 1)..(Len(store) + 1) :
      /\ store' = InsertAt(store, pos, [row EXCEPT !.createdAt = now])
      /\ clock' = now
      /\ appends' = appends + 1

\* db.chatMemory.findMany({ where: { sessionId }, orderBy: { createdAt: 'asc' } })
findMany(s, sid) == SelectSeq(s, LAMBDA r : r.sid = sid)

\* db.chatMemory.deleteMany({ where: { sessionId } })
deleteMany(s, sid) == SelectSeq(s, LAMBDA r : r.sid # sid)

Take(s, n) == SubSeq(s, 1, Min(n, Len(s)))

\* ------------------------------------------------------------ class ChatMemory
ToMessages(rows) ==
  [i \in 1..Len(rows) |-> [role |-> rows[i].role, content |-> rows[i].content]]

saveMessageWritesOnFailure(P, sid, role, content, by, ok) ==
  dbCreate(P, NewRow(sid, role, content, by))

\* ChatMemory.saveMessage; `ok` is whether the database call succeeds (a failure
\* is caught and logged).
saveMessage(P, sid, role, content, by, ok) ==
  IF ok THEN dbCreate(P, NewRow(sid, role, content, by))
  ELSE UNCHANGED <<store, clock, appends>>

getMemoryAnySession(s, sid, limit, ok) ==
  IF ok THEN ToMessages(Take(s, limit)) ELSE <<>>

getMemoryTakeLast(s, sid, limit, ok) ==
  IF ok
  THEN LET rows == findMany(s, sid)
       IN ToMessages(SubSeq(rows, Len(rows) - Min(limit, Len(rows)) + 1, Len(rows)))
  ELSE <<>>

\* ChatMemory.getMemory(limit)
getMemory(s, sid, limit, ok) ==
  IF ok THEN ToMessages(Take(findMany(s, sid), limit)) ELSE <<>>

\* ChatMemory.getFullMemory()
getFullMemory(s, sid, ok) ==
  IF ok THEN ToMessages(findMany(s, sid)) ELSE <<>>

clearMemoryFirstOnly(s, sid, ok) ==
  IF ok /\ \E i \in 1..Len(s) : s[i].sid = sid
  THEN LET i == CHOOSE j \in 1..Len(s) :
                  s[j].sid = sid /\ \A k \in 1..(j - 1) : s[k].sid # sid
       IN SubSeq(s, 1, i - 1) \o SubSeq(s, i + 1, Len(s))
  ELSE s

\* ChatMemory.clearMemory(): the table after the call.
clearMemory(s, sid, ok) == IF ok THEN deleteMany(s, sid) ELSE s

NL == "\n"

\* msg.role.toUpperCase()
toUpperCase(role) ==
  CASE role = "user" -> "USER"
    [] role = "assistant" -> "ASSISTANT"
    [] role = "system" -> "SYSTEM"
    [] OTHER -> role

RECURSIVE JoinLines(_)
\* memory.map(msg => `${ROLE}: ${msg.content}`).join('\n')
JoinLines(memory) ==
  IF memory = <<>> THEN <<>>
  ELSE LET line == <<toUpperCase(Head(memory).role), ": ">> \o Head(memory).content
       IN IF Len(memory) = 1 THEN line
          ELSE line \o <<NL>> \o JoinLines(Tail(memory))

formatMemoryForPromptAlwaysWraps(memory) ==
  <<"[Previous Conversation Context]", NL>> \o JoinLines(memory)
    \o <<NL, "[End of Context]", NL, NL>>

\* ChatMemory.formatMemoryForPrompt
formatMemoryForPrompt(memory) ==
  IF Len(memory) = 0 THEN <<>>
  ELSE <<"[Previous Conversation Context]", NL>> \o JoinLines(memory)
       \o <<NL, "[End of Context]", NL, NL>>

\* ChatMemory.generateSessionId: `session_${Date.now()}_${random}`, taken to
\* differ from every id in use.
generateSessionId == Minted(minted + 1)

getChatMemoryKeepsCurrent(sessionId) ==
  IF currentMemory = NoMemory
  THEN IF Truthy(sessionId) THEN sessionId ELSE generateSessionId
  ELSE currentMemory

\* getChatMemory(sessionId): the session id of the instance it returns.  An
\* instance never changes its session id, so the singleton is known by it.
getChatMemory(sessionId) ==
  IF currentMemory = NoMemory \/ (Truthy(sessionId) /\ currentMemory # sessionId)
  THEN IF Truthy(sessionId) THEN sessionId ELSE generateSessionId
  ELSE currentMemory

\* The assignment to currentMemory in getChatMemory, with the constructor's minting.
SetCurrentMemory(sessionId) ==
  /\ currentMemory' = getChatMemory(sessionId)
  /\ minted' = IF getChatMemory(sessionId).k = "minted" /\ getChatMemory(sessionId).n > minted
               THEN minted + 1 ELSE minted

\* ------------------------------------------------------- requests and replies
\* body.prompt: absent, or a string.
NoPrompt == [has |-> FALSE, text |-> NoText]
Prompt(t) == [has |-> TRUE, text |-> t]

\* !prompt
PromptFalsy(p) == ~p.has \/ p.text = <<>>

\* body.selectedApiConfig and the entries of body.customApis / body.localModels:
\* `apiKey` says whether a key is given, `endpoint` is "" when none is given.
NoCfg == [present |-> FALSE, id |-> "", apiKey |-> FALSE, endpoint |-> ""]
Cfg(id, key, endpoint) == [present |-> TRUE, id |-> id, apiKey |-> key, endpoint |-> endpoint]

\* body.temperature, body.maxTokens: absent, or a JSON number, or a string of
\* digits (`value` is the number it holds or spells; temperatures in tenths).
NoOption == [has |-> FALSE, kind |-> "number", value |-> 0]
Option(kind, value) == [has |-> TRUE, kind |-> kind, value |-> value]

\* JavaScript truthiness of an option: 0 is falsy, the string "0" is not.
OptionTruthy(option) == option.has /\ (option.kind = "string" \/ option.value # 0)

\* parseFloat / parseInt of an option that is a number or spells one.
parseNumber(option) == option.value

NoApi == ""
Pollinations == "pollinations"
BuiltIn == {"openai", "mistral", "claude", Pollinations}

\* What one fetch comes to: a response with ok status and a body, a response
\* with a non-ok status, or a rejected promise.
\* The body of an ok response: `json` is whether it parses as JSON;
\* choices/content/response describe the fields of the parsed object;
\* `text` is the body read as text.  A field is "absent", or holds a non-empty
\* string ("text"), the empty string ("empty") or, for content, an array of
\* blocks ("blocks").
Payload(json, choices, content, response, text) ==
  [json |-> json, choices |-> choices, content |-> content, response |-> response,
   text |-> text]
Ok(payload) == [kind |-> "ok", status |-> 200, payload |-> payload]
Bad(status) == [kind |-> "bad", status |-> status,
                payload |-> Payload("invalid", "absent", "absent", "absent", <<"upstream error body">>)]
Throw == [kind |-> "throw", status |-> 0,
          payload |-> Payload("invalid", "absent", "absent", "absent", NoText)]

NoOutcome == [kind |-> "none", status |-> 0,
              payload |-> Payload("invalid", "absent", "absent", "absent", NoText)]

\* The locals and the result of one request handler: the POST of
\* pollinations/text/route.ts (op "generate") or a handler of memory/route.ts
\* (op "get", "clear", "save", "invalid").
IdleReq ==
  [pc |-> "idle", op |-> "none", id |-> 0,
   prompt |-> NoPrompt, sessionId |-> NoId, selectedApi |-> NoApi,
   cfg |-> NoCfg, catalog |-> <<>>,
   temperature |-> NoOption, maxTokens |-> NoOption,
   wire |-> <<>>,              \* the JSON bodies posted to built-in providers
   sid |-> NoId,               \* chatMemory.getSessionId()
   memory |-> <<>>, memoryContext |-> NoText, enhancedPrompt |-> NoText,
   branch |-> "none",          \* the branch of the provider chain that is waiting
   dispatches |-> <<>>,        \* the fetches made: [target, prompt]
   responseData |-> NoText,
   userNo |-> 0, asstNo |-> 0, \* numbers of the rows this call created (0: none)
   status |-> 0, error |-> "", upstream |-> NoOutcome,
   errorStatus |-> 0,          \* the ${response.status} of an "API error" message
   errorBody |-> NoText,       \* the ${errorText} of an "API error" message
   fresh |-> FALSE,            \* the session id was returned by no earlier call
   before |-> <<>>,            \* the session's rows when the handler began
   changed |-> FALSE,          \* a memory handler changed the table
   failures |-> {}]            \* the ChatMemory calls whose database call failed

InFlight(r) == req[r].pc \notin {"idle", "done"}
Quiet == \A r \in Slots : ~InFlight(r)

\* A handler may begin in slot r: any free slot when handlers overlap, else slot 1
\* once the previous handler has returned.
MayBegin(P, r) ==
  /\ ~InFlight(r)
  /\ P.conc \/ (Quiet /\ r = 1)
  /\ calls < MaxCalls

\* ------------------------------------------------- src/app/api/memory/route.ts
\* GET ?sessionId=..&action=..  (`sessionId || undefined` is what getChatMemory
\* itself makes of a falsy id.)
MemoryGET(P, r, sessionId, action, ok) ==
  /\ MayBegin(P, r)
  /\ calls' = calls + 1
  /\ SetCurrentMemory(sessionId)
  /\ LET sid == getChatMemory(sessionId)
         after == IF action = "clear" THEN clearMemory(store, sid, ok) ELSE store
     IN /\ store' = after
        /\ req' = [req EXCEPT ![r] =
             [IdleReq EXCEPT
                !.pc = "done", !.id = calls + 1,
                !.op = IF action = "clear" THEN "clear" ELSE "get",
                !.sessionId = sessionId, !.sid = sid, !.status = 200,
                !.memory = IF action = "clear" THEN <<>> ELSE getFullMemory(store, sid, ok),
                !.fresh = sid \notin returned,
                !.before = findMany(store, sid),
                !.changed = (after # store),
                !.failures = IF ok THEN {}
                             ELSE IF action = "clear" THEN {"clear"} ELSE {"read"}]]
        /\ returned' = returned \cup {sid}
  /\ UNCHANGED <<clock, appends, envKey>>

\* POST { action, sessionId, message }: message is absent (has = FALSE) or
\* { role, content }.
MemoryPOST(P, r, sessionId, action, message, ok) ==
  /\ MayBegin(P, r)
  /\ calls' = calls + 1
  /\ SetCurrentMemory(sessionId)
  /\ LET sid == getChatMemory(sessionId)
         base == [IdleReq EXCEPT !.pc = "done", !.id = calls + 1,
                                 !.sessionId = sessionId, !.sid = sid,
                                 !.fresh = sid \notin returned,
                                 !.before = findMany(store, sid)]
     IN IF action = "save" /\ message.has
        THEN /\ saveMessage(P, sid, message.role, message.content, calls + 1, ok)
             /\ req' = [req EXCEPT ![r] =
                  [base EXCEPT !.op = "save", !.status = 200, !.changed = ok,
                               !.userNo = IF ok THEN appends + 1 ELSE 0,
                               !.failures = IF ok THEN {} ELSE {"save"}]]
             /\ returned' = returned \cup {sid}
        ELSE IF action = "clear"
        THEN /\ store' = clearMemory(store, sid, ok)
             /\ req' = [req EXCEPT ![r] =
                  [base EXCEPT !.op = "clear", !.status = 200,
                               !.changed = (clearMemory(store, sid, ok) # store),
                               !.failures = IF ok THEN {} ELSE {"clear"}]]
             /\ returned' = returned \cup {sid}
             /\ UNCHANGED <<clock, appends>>
        ELSE /\ req' = [req EXCEPT ![r] = [base EXCEPT !.op = "invalid", !.status = 400]]
             /\ UNCHANGED <<store, clock, appends, returned>>
  /\ UNCHANGED envKey

\* ---------------------------------------- src/app/api/pollinations/text/route.ts
ContextInstruction ==
  <<NL, NL, "Please respond to the current message while being aware of the previous conversation context. ...">>
StructureInstruction ==
  <<NL, NL, "Please format your response with proper structure: ...">>

\* enhancedPrompt as built before the provider chain (no files attached).
BuildPrompt(prompt, memory, selectedApi) ==
  LET memoryContext == formatMemoryForPrompt(memory)
      withContext ==
        IF memoryContext # <<>>
        THEN memoryContext \o <<"Current user message: ">> \o prompt \o ContextInstruction
        ELSE prompt
  IN IF selectedApi # Pollinations THEN withContext \o StructureInstruction
     ELSE withContext

\* response.json(): throws on a body that is not JSON.
\* An extraction yields [threw, data]: whether evaluating it threw, and the value.
Extracted(t) == [threw |-> FALSE, data |-> t]
Threw == [threw |-> TRUE, data |-> NoText]

\* data.choices[0]?.message?.content || fallbackText   (openai, mistral)
ExtractChoices(payload, fallbackText) ==
  IF payload.json # "object" \/ payload.choices = "absent" THEN Threw
  ELSE IF payload.choices = "text" THEN Extracted(<<"choices text">>)
  ELSE Extracted(fallbackText)

\* data.content?.[0]?.text || 'No response from Claude'
ExtractClaude(payload) ==
  IF payload.json # "object" THEN Threw
  ELSE IF payload.content = "blocks" THEN Extracted(<<"block text">>)
  ELSE Extracted(<<"No response from Claude">>)

\* data.choices?.[0]?.message?.content || data.content || data.response
\*   || JSON.stringify(data)
ExtractCustom(payload) ==
  IF payload.json # "object" THEN Threw
  ELSE IF payload.choices = "text" THEN Extracted(<<"choices text">>)
  ELSE IF payload.content = "text" THEN Extracted(<<"content text">>)
  ELSE IF payload.content = "blocks" THEN Extracted(<<"content blocks">>)
  ELSE IF payload.response = "text" THEN Extracted(<<"response text">>)
  ELSE Extracted(<<"JSON", payload.choices, payload.content, payload.response>>)

\* src/app/api/local/route.ts, generateText, format 'custom':
\* data.response || data.text || data.content || JSON.stringify(data)
\* (the payloads here carry no field `text`).
ExtractLocalCustom(payload) ==
  IF payload.json # "object" THEN Threw
  ELSE IF payload.response = "text" THEN Extracted(<<"response text">>)
  ELSE IF payload.content = "text" THEN Extracted(<<"content text">>)
  ELSE IF payload.content = "blocks" THEN Extracted(<<"content blocks">>)
  ELSE Extracted(<<"JSON", payload.choices, payload.content, payload.response>>)

\* await response.text()
ExtractText(payload) == Extracted(payload.text)

Extract(branch, payload) ==
  CASE branch = "openai" -> ExtractChoices(payload, <<"No response from OpenAI">>)
    [] branch = "mistral" -> ExtractChoices(payload, <<"No response from Mistral">>)
    [] branch = "claude" -> ExtractClaude(payload)
    [] branch = "custom" -> ExtractCustom(payload)
    [] OTHER -> ExtractText(payload)

ApiKeyFoundAnyEnv(selectedApi, cfg) == (cfg.present /\ cfg.apiKey) \/ envKey

\* The credential the branch of a built-in provider finds.
ApiKeyFound(selectedApi, cfg) ==
  IF selectedApi = "openai" THEN (cfg.present /\ cfg.apiKey) \/ envKey
  ELSE cfg.present /\ cfg.apiKey

MissingKeyError(selectedApi) ==
  CASE selectedApi = "openai" -> "OpenAI API key is required"
    [] selectedApi = "mistral" -> "Mistral API key is required"
    [] selectedApi = "claude" -> "Claude API key is required"
    [] OTHER -> ""

\* allApis.find(api => api.id === selectedApi) || selectedApiConfig
FindApiConfig(catalog, selectedApi, cfg) ==
  IF \E i \in 1..Len(catalog) : catalog[i].id = selectedApi
  THEN catalog[CHOOSE i \in 1..Len(catalog) :
                 catalog[i].id = selectedApi
                 /\ \A j \in 1..(i - 1) : catalog[j].id # selectedApi]
  ELSE cfg

Dispatch(target, prompt) == [target |-> target, prompt |-> prompt]

\* The body posted by the openai, mistral and claude branches (the claude body
\* has no temperature).
WireBody(branch, enhancedPrompt, temperature, maxTokens) ==
  [messages |-> <<[role |-> "user", content |-> enhancedPrompt]>>,
   temperature |->
     IF branch = "claude" THEN NoOption
     ELSE Option("number", IF OptionTruthy(temperature) THEN parseNumber(temperature)
                           ELSE DefaultTemperature),
   max_tokens |-> Option("number", IF OptionTruthy(maxTokens) THEN parseNumber(maxTokens)
                                   ELSE DefaultMaxTokens)]

\* Lines 69-82: the prompt gate, getChatMemory and the save of the user turn.
GenerateStart(P, r, body, ok) ==
  /\ MayBegin(P, r)
  /\ calls' = calls + 1
  /\ LET base == [IdleReq EXCEPT !.op = "generate", !.id = calls + 1,
                                 !.prompt = body.prompt,
                                 !.sessionId = body.sessionId,
                                 !.selectedApi = body.selectedApi,
                                 !.cfg = body.cfg, !.catalog = body.catalog,
                                 !.temperature = body.temperature,
                                 !.maxTokens = body.maxTokens]
         sid == getChatMemory(body.sessionId)
     IN IF PromptFalsy(body.prompt)
        THEN /\ req' = [req EXCEPT ![r] = [base EXCEPT !.pc = "done", !.status = 400,
                                                     !.error = "Prompt is required"]]
             /\ UNCHANGED <<store, clock, appends, currentMemory, minted>>
        ELSE /\ SetCurrentMemory(body.sessionId)
             /\ saveMessage(P, sid, "user", body.prompt.text, calls + 1, ok)
             /\ req' = [req EXCEPT ![r] =
                          [base EXCEPT !.pc = "saved", !.sid = sid,
                                       !.fresh = sid \notin returned,
                                       !.before = findMany(store, sid),
                                       !.userNo = IF ok THEN appends + 1 ELSE 0,
                                       !.failures = IF ok THEN {} ELSE {"saveUser"}]]
  /\ UNCHANGED <<returned, envKey>>

\* Lines 84-338 up to the first fetch: the read of the context, the prompt, the
\* choice of the branch, the credential gate and the dispatch.
GenerateDispatch(r, ok) ==
  /\ req[r].pc = "saved"
  /\ LET q == req[r]
         memory == getMemory(store, q.sid, ContextLimit, ok)
         enhancedPrompt == BuildPrompt(q.prompt.text, memory, q.selectedApi)
         apiConfig == FindApiConfig(q.catalog, q.selectedApi, q.cfg)
         read == [q EXCEPT !.memory = memory,
                           !.memoryContext = formatMemoryForPrompt(memory),
                           !.enhancedPrompt = enhancedPrompt,
                           !.failures = IF ok THEN @ ELSE @ \cup {"read"}]
         send(branch, target) ==
           [read EXCEPT !.pc = "waiting", !.branch = branch,
                        !.dispatches = <<Dispatch(target, enhancedPrompt)>>]
     IN req' = [req EXCEPT ![r] =
          IF q.selectedApi \in {"openai", "mistral", "claude"}
          THEN IF ApiKeyFound(q.selectedApi, q.cfg)
               THEN [send(q.selectedApi, q.selectedApi) EXCEPT
                       !.wire = <<WireBody(q.selectedApi, enhancedPrompt,
                                           q.temperature, q.maxTokens)>>]
               ELSE [read EXCEPT !.pc = "done", !.status = 400,
                                 !.error = MissingKeyError(q.selectedApi)]
          ELSE IF q.selectedApi = Pollinations \/ q.selectedApi = NoApi
          THEN send(Pollinations, Pollinations)
          ELSE IF apiConfig.present /\ apiConfig.endpoint # ""
          THEN send("custom", apiConfig.endpoint)
          ELSE send("notfound", Pollinations)]
  /\ UNCHANGED <<store, clock, appends, currentMemory, minted, calls, returned, envKey>>

GenerateResponseIgnoresStatus(r, o) ==
  /\ req[r].pc = "waiting"
  /\ LET q == req[r]
         x == Extract(q.branch, o.payload)
         failed(msg) == [q EXCEPT !.pc = "done", !.status = 500, !.error = msg,
                                  !.upstream = o]
         retry == [q EXCEPT !.branch = "catch", !.upstream = o,
                            !.dispatches = @ \o <<Dispatch(Pollinations, q.enhancedPrompt)>>]
         inTry == q.branch \in {"custom", "notfound"}
     IN req' = [req EXCEPT ![r] =
          IF o.kind = "throw"
          THEN IF inTry THEN retry ELSE failed("exception")
          ELSE IF x.threw
          THEN IF inTry THEN retry ELSE failed("exception")
          ELSE [q EXCEPT !.pc = "respond", !.responseData = x.data, !.upstream = o]]
  /\ UNCHANGED <<store, clock, appends, currentMemory, minted, calls, returned, envKey>>

GenerateResponseRebuildsPrompt(r, o) ==
  /\ req[r].pc = "waiting"
  /\ LET q == req[r]
         x == Extract(q.branch, o.payload)
         failed(msg) == [q EXCEPT !.pc = "done", !.status = 500, !.error = msg,
                                  !.upstream = o]
         apiError == [failed("API error") EXCEPT !.errorStatus = o.status,
                                                 !.errorBody = o.payload.text]
         again == BuildPrompt(q.prompt.text, getMemory(store, q.sid, ContextLimit, TRUE),
                              q.selectedApi)
         retry == [q EXCEPT !.branch = "catch", !.upstream = o,
                            !.dispatches = @ \o <<Dispatch(Pollinations, again)>>]
         inTry == q.branch \in {"custom", "notfound"}
     IN req' = [req EXCEPT ![r] =
          IF o.kind = "throw"
          THEN IF inTry THEN retry ELSE failed("exception")
          ELSE IF o.kind = "bad"
          THEN apiError
          ELSE IF x.threw
          THEN IF inTry THEN retry ELSE failed("exception")
          ELSE [q EXCEPT !.pc = "respond", !.responseData = x.data, !.upstream = o]]
  /\ UNCHANGED <<store, clock, appends, currentMemory, minted, calls, returned, envKey>>

\* The awaited fetch settles with outcome o: the rest of the branch, and lines
\* 340-344 and the catch at 359 where the handler ends in an error.
GenerateResponse(r, o) ==
  /\ req[r].pc = "waiting"
  /\ LET q == req[r]
         x == Extract(q.branch, o.payload)
         failed(msg) == [q EXCEPT !.pc = "done", !.status = 500, !.error = msg,
                                  !.upstream = o]
         apiError == [failed("API error") EXCEPT !.errorStatus = o.status,
                                                 !.errorBody = o.payload.text]
         retry == [q EXCEPT !.branch = "catch", !.upstream = o,
                            !.dispatches = @ \o <<Dispatch(Pollinations, q.enhancedPrompt)>>]
         inTry == q.branch \in {"custom", "notfound"}
     IN req' = [req EXCEPT ![r] =
          IF o.kind = "throw"
          THEN IF inTry THEN retry ELSE failed("exception")
          ELSE IF o.kind = "bad"
          THEN apiError
          ELSE IF x.threw
          THEN IF inTry THEN retry ELSE failed("exception")
          ELSE [q EXCEPT !.pc = "respond", !.responseData = x.data, !.upstream = o]]
  /\ UNCHANGED <<store, clock, appends, currentMemory, minted, calls, returned, envKey>>

GenerateFinishReportsError(P, r, ok) ==
  /\ req[r].pc = "respond"
  /\ saveMessage(P, req[r].sid, "assistant", req[r].responseData, req[r].id, ok)
  /\ req' = [req EXCEPT ![r].pc = "done", ![r].status = 500, ![r].error = "exception",
                        ![r].asstNo = IF ok THEN appends + 1 ELSE 0,
                        ![r].failures = IF ok THEN @ ELSE @ \cup {"saveAssistant"}]
  /\ UNCHANGED <<currentMemory, minted, calls, returned, envKey>>

GenerateFinishOnCurrentMemory(P, r, ok) ==
  /\ req[r].pc = "respond"
  /\ saveMessage(P, currentMemory, "assistant", req[r].responseData, req[r].id, ok)
  /\ req' = [req EXCEPT ![r].pc = "done", ![r].status = 200, ![r].sid = currentMemory,
                        ![r].asstNo = IF ok THEN appends + 1 ELSE 0,
                        ![r].failures = IF ok THEN @ ELSE @ \cup {"saveAssistant"}]
  /\ returned' = returned \cup {currentMemory}
  /\ UNCHANGED <<currentMemory, minted, calls, envKey>>

\* Lines 346-357: the save of the assistant turn and the result.
GenerateFinish(P, r, ok) ==
  /\ req[r].pc = "respond"
  /\ saveMessage(P, req[r].sid, "assistant", req[r].responseData, req[r].id, ok)
  /\ req' = [req EXCEPT ![r].pc = "done", ![r].status = 200,
                        ![r].asstNo = IF ok THEN appends + 1 ELSE 0,
                        ![r].failures = IF ok THEN @ ELSE @ \cup {"saveAssistant"}]
  /\ returned' = returned \cup {req[r].sid}
  /\ UNCHANGED <<currentMemory, minted, calls, envKey>>

\* The `selectedApi` of the result of a successful Generate: the id requested.
ResultSelectedApi(r) == req[r].selectedApi

\* ------------------------------------------------------------------- inputs
A == CallerId(1)
B == CallerId(2)

NoMessage == [has |-> FALSE, role |-> "", content |-> NoText]
Message(role, content) == [has |-> TRUE, role |-> role, content |-> content]

CustomUrl == "http://custom/api"
OtherUrl == "http://other/api"

\* Bodies of ok responses: plain text; a chat completion; an Anthropic message;
\* a JSON object with none of the fields the extractions look for.
TextPayload == Payload("invalid", "absent", "absent", "absent", <<"reply">>)
ChatPayload == Payload("object", "text", "absent", "absent", <<"reply">>)
ClaudePayload == Payload("object", "absent", "blocks", "absent", <<"reply">>)
NoChoicesPayload == Payload("object", "absent", "absent", "absent", <<"reply">>)

\* The provider part of a request body.
Provider(selectedApi, cfg, catalog) ==
  [selectedApi |-> selectedApi, cfg |-> cfg, catalog |-> catalog]

\* What a behaviour may feed the handlers.  `echo` lets a caller send back a
\* session id an earlier call returned.
MemoryInputs ==
  [conc |-> FALSE,
   ties |-> TRUE,
   sessions |-> {NoId, EmptyId, A, B}, echo |-> TRUE,
   prompts |-> {Prompt(<<"h">>)},
   providers |-> {Provider(NoApi, NoCfg, <<>>)},
   outcomes |-> {Ok(TextPayload), Bad(503)},
   gets |-> {"get", "clear"},
   posts |-> {"save", "clear", "other"},
   messages |-> {NoMessage, Message("user", <<"m">>), Message("assistant", <<"m">>)},
   envKeys |-> {FALSE},
   dbOk |-> {TRUE},
   options |-> {[temperature |-> NoOption, maxTokens |-> NoOption]}]

SessionArgs(P) == P.sessions \cup (IF P.echo THEN returned ELSE {})

Bodies(P) ==
  {[prompt |-> p, sessionId |-> s, selectedApi |-> v.selectedApi, cfg |-> v.cfg,
    catalog |-> v.catalog, temperature |-> o.temperature, maxTokens |-> o.maxTokens] :
     p \in P.prompts, s \in SessionArgs(P), v \in P.providers, o \in P.options}

InitWith(P) ==
  /\ store = <<>>
  /\ clock = 0
  /\ appends = 0
  /\ currentMemory = NoMemory
  /\ minted = 0
  /\ calls = 0
  /\ returned = {}
  /\ envKey \in P.envKeys
  /\ req = [r \in Slots |-> IdleReq]

NextWith(P) ==
  \/ \E r \in Slots, sessionId \in SessionArgs(P), action \in P.gets, ok \in P.dbOk :
       MemoryGET(P, r, sessionId, action, ok)
  \/ \E r \in Slots, sessionId \in SessionArgs(P), action \in P.posts,
        message \in P.messages, ok \in P.dbOk :
       MemoryPOST(P, r, sessionId, action, message, ok)
  \/ \E r \in Slots, body \in Bodies(P), ok \in P.dbOk : GenerateStart(P, r, body, ok)
  \/ \E r \in Slots, ok \in P.dbOk : GenerateDispatch(r, ok)
  \/ \E r \in Slots, o \in P.outcomes : GenerateResponse(r, o)
  \/ \E r \in Slots, ok \in P.dbOk : GenerateFinish(P, r, ok)

\* One handler at a time (spec.md section 5: a single logical request per caller
\* invocation), any session: the memory endpoint and plain generations.
Init == InitWith(MemoryInputs)
Next == NextWith(MemoryInputs)
Spec == Init /\ [][Next]_vars

\* Generations with every kind of prompt, on the caller's session or on none.
PromptInputs ==
  [MemoryInputs EXCEPT
     !.ties = FALSE,
     !.sessions = {NoId, A}, !.echo = FALSE,
     !.prompts = {NoPrompt, Prompt(<<>>), Prompt(<<Space>>), Prompt(<<"h">>),
                  Prompt(<<Space, "h">>)},
     !.outcomes = {Ok(TextPayload), Bad(503), Throw},
     !.gets = {"get"}, !.posts = {"clear"}, !.messages = {NoMessage}]

InitPrompts == InitWith(PromptInputs)
NextPrompts == NextWith(PromptInputs)
SpecPrompts == InitPrompts /\ [][NextPrompts]_vars

\* Generations on one session with every provider id, caller-supplied
\* configuration and catalog, and every way a fetch can end.
RouteProviders ==
  {Provider(NoApi, NoCfg, <<>>), Provider(Pollinations, NoCfg, <<>>)}
    \cup {Provider(api, cfg, <<>>) :
            api \in {"openai", "mistral", "claude"}, cfg \in {NoCfg, Cfg("key", TRUE, "")}}
    \cup {Provider("custom-1", cfg, catalog) :
            cfg \in {NoCfg, Cfg("custom-1", TRUE, CustomUrl)},
            catalog \in {<<>>, <<Cfg("custom-1", FALSE, CustomUrl)>>,
                         <<Cfg("custom-2", FALSE, OtherUrl), Cfg("custom-1", FALSE, "")>>}}
    \cup {Provider("unknown", cfg, catalog) :
            cfg \in {NoCfg, Cfg("other", FALSE, OtherUrl)},
            catalog \in {<<>>, <<Cfg("custom-1", FALSE, CustomUrl)>>}}

RouteInputs ==
  [MemoryInputs EXCEPT
     !.ties = FALSE,
     !.sessions = {A}, !.echo = FALSE,
     !.providers = RouteProviders,
     !.outcomes = {Ok(TextPayload), Ok(ChatPayload), Ok(ClaudePayload),
                   Ok(NoChoicesPayload), Bad(503), Bad(404), Throw},
     !.gets = {"get"}, !.posts = {"clear"}, !.messages = {NoMessage},
     !.envKeys = BOOLEAN]

\* Every handler on one session, each database call succeeding or failing.
DegradedInputs ==
  [MemoryInputs EXCEPT
     !.ties = FALSE,
     !.sessions = {A}, !.echo = FALSE,
     !.posts = {"save", "clear"}, !.messages = {Message("user", <<"m">>)},
     !.dbOk = BOOLEAN]

InitDegraded == InitWith(DegradedInputs)
NextDegraded == NextWith(DegradedInputs)
SpecDegraded == InitDegraded /\ [][NextDegraded]_vars

\* Handlers on one session that overlap: a handler gives way at each await, and
\* another request's handler runs meanwhile (one Node.js event loop).
ConcurrentInputs ==
  [MemoryInputs EXCEPT
     !.conc = TRUE,
     !.sessions = {A}, !.echo = FALSE,
     !.gets = {"clear"},
     !.posts = {"save"}, !.messages = {Message("user", <<"m">>)}]

InitConcurrent == InitWith(ConcurrentInputs)
NextConcurrent == NextWith(ConcurrentInputs)
SpecConcurrent == InitConcurrent /\ [][NextConcurrent]_vars

\* formatMemoryForPrompt(memory) called on its own, on `new ChatMemory(sid)`
\* instances of two sessions, with any sequence of turns; the table is empty or
\* not.
FormatTurns ==
  {[role |-> "user", content |-> <<"m">>],
   [role |-> "assistant", content |-> <<>>],
   [role |-> "assistant", content |-> <<"a", NL, "b">>]}
FormatInputs == UNION {[1..n -> FormatTurns] : n \in 0..MaxTurns}

FormatCall(sid, memory) ==
  [IdleReq EXCEPT !.pc = "call", !.op = "format", !.sid = sid, !.memory = memory]

InitFormat ==
  /\ \E n \in 0..1 :
       /\ store = [i \in 1..n |-> [sid |-> A, role |-> "user", content |-> <<"m">>,
                                  createdAt |-> 0, no |-> 1, by |-> 0]]
       /\ appends = n
  /\ clock = 0
  /\ currentMemory = NoMemory
  /\ minted = 0
  /\ calls = 0
  /\ returned = {}
  /\ envKey = FALSE
  /\ \E m1, m2 \in FormatInputs :
       req = [r \in Slots |-> IF r = 1 THEN FormatCall(A, m1)
                              ELSE IF r = 2 THEN FormatCall(B, m2) ELSE IdleReq]

\* const memoryContext = chatMemory.formatMemoryForPrompt(memory)
FormatMemory(r) ==
  /\ req[r].op = "format" /\ req[r].pc = "call"
  /\ req' = [req EXCEPT ![r].pc = "done",
                        ![r].memoryContext = formatMemoryForPrompt(req[r].memory)]
  /\ UNCHANGED <<store, clock, appends, currentMemory, minted, calls, returned, envKey>>

NextFormat == \E r \in Slots : FormatMemory(r)
SpecFormat == InitFormat /\ [][NextFormat]_vars

\* Generations through a caller-supplied endpoint that answers with a JSON
\* object: each of the three fields absent, a string, or the empty string.
FieldShapes == {"absent", "text", "empty"}
ExtractionInputs ==
  [MemoryInputs EXCEPT
     !.ties = FALSE,
     !.sessions = {A}, !.echo = FALSE,
     !.providers = {Provider("custom-1", NoCfg, <<Cfg("custom-1", FALSE, CustomUrl)>>)},
     !.outcomes = {Ok(Payload("object", ch, co, re, <<"reply">>)) :
                     ch \in FieldShapes, co \in FieldShapes, re \in FieldShapes},
     !.gets = {"get"}, !.posts = {"clear"}, !.messages = {NoMessage}]

InitExtraction == InitWith(ExtractionInputs)
NextExtraction == NextWith(ExtractionInputs)
SpecExtraction == InitExtraction /\ [][NextExtraction]_vars

\* Generations whose catalog holds an entry under a built-in id, under the
\* requested id, or under neither.
ResolutionProviders ==
  {Provider("openai", Cfg("key", TRUE, ""), <<Cfg("openai", FALSE, CustomUrl)>>),
   Provider(Pollinations, NoCfg, <<Cfg(Pollinations, FALSE, CustomUrl)>>),
   Provider("claude", Cfg("claude", TRUE, OtherUrl), <<Cfg("claude", TRUE, CustomUrl)>>),
   Provider("custom-1", NoCfg, <<Cfg("openai", FALSE, OtherUrl), Cfg("custom-1", FALSE, CustomUrl)>>),
   Provider("custom-1", Cfg("custom-1", FALSE, CustomUrl), <<>>),
   Provider("unknown", NoCfg, <<Cfg("custom-1", FALSE, CustomUrl)>>),
   Provider("unknown", Cfg("other", FALSE, OtherUrl), <<Cfg("custom-1", FALSE, CustomUrl)>>)}

ResolutionInputs ==
  [MemoryInputs EXCEPT
     !.ties = FALSE,
     !.sessions = {A}, !.echo = FALSE,
     !.providers = ResolutionProviders,
     !.outcomes = {Ok(ChatPayload), Bad(503)},
     !.gets = {"get"}, !.posts = {"clear"}, !.messages = {NoMessage}]

InitResolution == InitWith(ResolutionInputs)
NextResolution == NextWith(ResolutionInputs)
SpecResolution == InitResolution /\ [][NextResolution]_vars

\* Generations through a caller-supplied endpoint whose fetch can reject, while
\* other handlers on the session run at the awaits.
FallbackInputs ==
  [MemoryInputs EXCEPT
     !.conc = TRUE, !.ties = FALSE,
     !.sessions = {A}, !.echo = FALSE,
     !.providers = {Provider("custom-1", NoCfg, <<Cfg("custom-1", FALSE, CustomUrl)>>)},
     !.outcomes = {Ok(ChatPayload), Bad(503), Throw},
     !.gets = {"clear"},
     !.posts = {"save"}, !.messages = {Message("user", <<"m">>)}]

InitFallback == InitWith(FallbackInputs)
NextFallback == NextWith(FallbackInputs)
SpecFallback == InitFallback /\ [][NextFallback]_vars

\* The memory endpoint given messages of any role (the body is unchecked JSON),
\* and generations.
RoleInputs ==
  [MemoryInputs EXCEPT
     !.ties = FALSE,
     !.sessions = {A, B}, !.echo = FALSE,
     !.messages = {NoMessage, Message("user", <<"m">>), Message("assistant", <<"m">>),
                   Message("system", <<"m">>)}]

InitRole == InitWith(RoleInputs)
NextRole == NextWith(RoleInputs)
SpecRole == InitRole /\ [][NextRole]_vars

\* Generations through the three providers that take a messages array, with
\* temperature and maxTokens absent, 0, another number, or a string.
OptionValues(n) == {NoOption, Option("number", 0), Option("number", n), Option("string", 0)}
WireInputs ==
  [MemoryInputs EXCEPT
     !.ties = FALSE,
     !.sessions = {A}, !.echo = FALSE,
     !.providers = {Provider(api, Cfg("key", TRUE, ""), <<>>) :
                      api \in {"openai", "mistral", "claude"}},
     !.outcomes = {Ok(ChatPayload), Bad(503)},
     !.gets = {"get"}, !.posts = {"clear"}, !.messages = {NoMessage},
     !.options = {[temperature |-> t, maxTokens |-> m] :
                    t \in OptionValues(2), m \in OptionValues(50)}]

InitWire == InitWith(WireInputs)
NextWire == NextWith(WireInputs)
SpecWire == InitWire /\ [][NextWire]_vars

\* Handlers of two sessions that overlap.
IsolationInputs ==
  [MemoryInputs EXCEPT
     !.conc = TRUE, !.ties = FALSE,
     !.sessions = {A, B}, !.echo = FALSE,
     !.outcomes = {Ok(TextPayload)},
     !.posts = {"save", "clear"}, !.messages = {Message("user", <<"m">>)}]

InitIsolation == InitWith(IsolationInputs)
NextIsolation == NextWith(IsolationInputs)
SpecIsolation == InitIsolation /\ [][NextIsolation]_vars

\* A session that already holds nine or ten turns, saved at different times by
\* earlier calls (the last of them at the current time), and further calls on it.
TurnNames == <<"t1", "t2", "t3", "t4", "t5", "t6", "t7", "t8", "t9", "t10">>
StoredTurn(i, n) ==
  [sid |-> A, role |-> IF i % 2 = 1 THEN "user" ELSE "assistant",
   content |-> <<TurnNames[i]>>, createdAt |-> i - n, no |-> i, by |-> 0]

ContextInputs ==
  [MemoryInputs EXCEPT
     !.sessions = {A}, !.echo = FALSE,
     !.outcomes = {Ok(TextPayload)},
     !.posts = {"save"}, !.messages = {Message("user", <<"m">>)}]

InitContext ==
  /\ \E n \in {ContextLimit - 1, ContextLimit} :
       /\ store = [i \in 1..n |-> StoredTurn(i, n)]
       /\ appends = n
  /\ clock = 0
  /\ currentMemory = A
  /\ minted = 0
  /\ calls = 0
  /\ returned = {A}
  /\ envKey = FALSE
  /\ req = [r \in Slots |-> IdleReq]

NextContext == NextWith(ContextInputs)
SpecContext == InitContext /\ [][NextContext]_vars

InitRoute == InitWith(RouteInputs)
NextRoute == NextWith(RouteInputs)
SpecRoute == InitRoute /\ [][NextRoute]_vars

\* ------------------------------------------------------------------ claims
Done(r) == req[r].pc = "done"

\* The sessions that hold rows.
StoredSessions == {store[i].sid : i \in 1..Len(store)}

RECURSIVE InsertionOrder(_)
\* The rows of a session in the order in which they were created.
InsertionOrder(rows) ==
  IF rows = <<>> THEN <<>>
  ELSE LET i == CHOOSE j \in 1..Len(rows) : \A k \in 1..Len(rows) : rows[j].no <= rows[k].no
       IN <<rows[i]>> \o InsertionOrder(SubSeq(rows, 1, i - 1) \o SubSeq(rows, i + 1, Len(rows)))

\* C1: a Generate / GetHistory / ClearHistory call that supplies no session id
\* (absent or empty) operates on a session id that no earlier call returned.
C1_NoIdOpensFreshSession ==
  \A r \in Slots :
    (req[r].op \in {"generate", "get", "clear"} /\ req[r].sid # NoId
       /\ ~Truthy(req[r].sessionId))
      => req[r].fresh

\* C2: reading the full history of a session yields its turns in the order in
\* which they were appended, equal timestamps included.
C2_ReadIsInsertionOrder ==
  \A sid \in StoredSessions :
    getFullMemory(store, sid, TRUE) = ToMessages(InsertionOrder(findMany(store, sid)))

\* The rows a Generate call created, by role.
RowsBy(r, role) ==
  SelectSeq(store, LAMBDA row : row.by = req[r].id /\ row.role = role)

\* The handler has read the context and built its prompt.
HasRead(r) == req[r].op = "generate" /\ req[r].pc \in {"waiting", "respond", "done"}
                /\ req[r].sid # NoId

\* The session held, when the call began, exactly the user turn and the assistant
\* turn of one earlier Generate call.
AfterOneExchange(r) ==
  /\ Len(req[r].before) = 2
  /\ \E i, j \in 1..2 :
       /\ req[r].before[i].role = "user" /\ req[r].before[j].role = "assistant"
       /\ req[r].before[i].by = req[r].before[j].by
       /\ req[r].before[i].by # 0

\* C3: the context injected into the second of two successful Generate calls on
\* a session holds exactly the first call's user turn and assistant turn, as
\* two lines.
C3_SecondContextIsFirstPair ==
  \A r \in Slots :
    (HasRead(r) /\ AfterOneExchange(r)) =>
      /\ Len(req[r].memory) = 2
      /\ {req[r].memory[i] : i \in 1..Len(req[r].memory)}
           = {ToMessages(req[r].before)[i] : i \in 1..2}
      /\ Cardinality({i \in 1..Len(formatMemoryForPrompt(req[r].memory)) :
                        formatMemoryForPrompt(req[r].memory)[i] \in {"USER", "ASSISTANT"}}) = 2

\* C4: a Generate request whose prompt is missing, empty, or empty after
\* trimming is rejected with no turn written and no dispatch made.
C4_BlankPromptRejected ==
  \A r \in Slots :
    (req[r].op = "generate" /\ (~req[r].prompt.has \/ Trim(req[r].prompt.text) = <<>>)) =>
      /\ Done(r) /\ req[r].status = 400
      /\ req[r].userNo = 0 /\ RowsBy(r, "user") = <<>>
      /\ req[r].dispatches = <<>>

MissingKeyErrors ==
  {"OpenAI API key is required", "Mistral API key is required", "Claude API key is required"}

\* C5: a Generate rejected for a missing credential leaves the session store as
\* it was; the request's user turn is not appended.
C5_MissingCredentialNoSideEffect ==
  \A r \in Slots :
    (Done(r) /\ req[r].op = "generate" /\ req[r].error \in MissingKeyErrors) =>
      /\ RowsBy(r, "user") = <<>>
      /\ Quiet => findMany(store, req[r].sid) = req[r].before

\* No credential for the provider: none in the caller's configuration, and for
\* openai none in the environment either (the other two read no environment).
NoCredential(r) ==
  /\ req[r].selectedApi \in {"openai", "mistral", "claude"}
  /\ ~(req[r].cfg.present /\ req[r].cfg.apiKey)
  /\ req[r].selectedApi = "openai" => ~envKey

\* C6: with a provider that needs a credential and none present, Generate ends
\* in the missing-credential error and makes no dispatch.
C6_CredentialGate ==
  \A r \in Slots :
    (req[r].op = "generate" /\ req[r].sid # NoId /\ NoCredential(r)) =>
      /\ req[r].dispatches = <<>>
      /\ req[r].pc \in {"saved", "done"}
      /\ Done(r) => /\ req[r].status = 400
                    /\ req[r].error = MissingKeyError(req[r].selectedApi)

\* A claude request without a key was rejected although the environment holds
\* the OpenAI key.
C6_Witness ==
  \E r \in Slots :
    /\ Done(r) /\ req[r].selectedApi = "claude" /\ NoCredential(r) /\ envKey
    /\ req[r].error = "Claude API key is required"

\* The provider id names no built-in provider and no entry the caller supplied.
Unresolved(r) ==
  /\ req[r].selectedApi \notin BuiltIn \cup {NoApi}
  /\ \A i \in 1..Len(req[r].catalog) : req[r].catalog[i].id # req[r].selectedApi
  /\ ~(req[r].cfg.present /\ req[r].cfg.id = req[r].selectedApi)

\* C7: a request whose provider id is unresolved is dispatched to Pollinations,
\* and fails only if Pollinations fails.
C7_UnknownProviderGoesToDefault ==
  \A r \in Slots :
    (HasRead(r) /\ Unresolved(r)) =>
      /\ \A i \in 1..Len(req[r].dispatches) : req[r].dispatches[i].target = Pollinations
      /\ (Done(r) /\ req[r].status # 200) => req[r].upstream.kind \in {"bad", "throw"}

\* C8: when Generate returns an error after its user turn was appended, the
\* user turn is in the session's history and the call appended no assistant turn.
C8_FailureKeepsUserTurnOnly ==
  \A r \in Slots :
    (Done(r) /\ req[r].op = "generate" /\ req[r].status # 200 /\ req[r].userNo # 0) =>
      /\ Len(RowsBy(r, "user")) = 1
      /\ RowsBy(r, "user")[1].sid = req[r].sid
      /\ RowsBy(r, "user")[1].content = req[r].prompt.text
      /\ RowsBy(r, "assistant") = <<>>

\* A generation failed on an ok response it could not use, on a session that
\* already held turns.
C8_Witness ==
  \E r \in Slots :
    /\ Done(r) /\ req[r].status = 500 /\ req[r].userNo # 0
    /\ req[r].upstream.kind = "ok" /\ req[r].before # <<>>

MaxLimit == 3        \* the largest limit tried on getMemory

C10_ClearIsIdempotent ==
  /\ \A r \in Slots :
       (Done(r) /\ req[r].op = "clear" /\ Quiet) =>
         /\ getFullMemory(store, req[r].sid, TRUE) = <<>>
         /\ req[r].before = <<>> => ~req[r].changed
  /\ \A sid \in StoredSessions \cup {A, B} :
       clearMemory(clearMemory(store, sid, TRUE), sid, TRUE) = clearMemory(store, sid, TRUE)

\* A clear has deleted the turns of a session that held two or more.
C10_Witness ==
  \E r \in Slots :
    /\ Done(r) /\ req[r].op = "clear" /\ req[r].changed
    /\ Len(req[r].before) >= 2

\* C11: for every non-empty session id s and whatever the singleton holds,
\* getChatMemory(s) is bound to s (so a repeated call is too), and a Generate,
\* history read or clear called with s works on s and reports s.
C11_OpenIsIdempotent ==
  /\ \A s \in {A, B} \cup returned : getChatMemory(s) = s
  /\ \A r \in Slots :
       (req[r].op \in {"generate", "get", "clear"} /\ Truthy(req[r].sessionId)
          /\ req[r].sid # NoId)
         => /\ req[r].sid = req[r].sessionId
            /\ (Done(r) /\ req[r].status = 200) => req[r].sessionId \in returned

\* A call with B has returned after a call that left the singleton bound to A.
C11_Witness ==
  \E r \in Slots :
    /\ Done(r) /\ req[r].id = 2 /\ req[r].sessionId = B /\ req[r].sid = B
    /\ req[r].op \in {"generate", "get", "clear"} /\ req[r].status = 200
    /\ A \in returned /\ currentMemory = B

\* Every ChatMemory call of the Generate call failed.
AllStorageFailed(r) == req[r].failures = {"saveUser", "read", "saveAssistant"}

\* C12: a failed storage operation is swallowed: a failed read yields no turn, a
\* failed append or clear leaves the table as it was, the handler answers as if
\* it had worked; a Generate whose reads and appends fail still dispatches, with
\* the bare prompt, and succeeds exactly when the provider does.
C12_StorageFailureSwallowed ==
  \A r \in Slots :
    /\ (Done(r) /\ req[r].op \in {"get", "clear", "save"} /\ req[r].failures # {}) =>
         /\ req[r].status = 200
         /\ req[r].memory = <<>>
         /\ ~req[r].changed
         /\ Quiet => findMany(store, req[r].sid) = req[r].before
    /\ (req[r].op = "generate" /\ "saveUser" \in req[r].failures) =>
         RowsBy(r, "user") = <<>>
    /\ (req[r].op = "generate" /\ "saveAssistant" \in req[r].failures) =>
         RowsBy(r, "assistant") = <<>> /\ req[r].status = 200
    /\ (HasRead(r) /\ "read" \in req[r].failures) =>
         /\ req[r].memory = <<>>
         /\ req[r].enhancedPrompt = BuildPrompt(req[r].prompt.text, <<>>, req[r].selectedApi)
         /\ req[r].dispatches # <<>>
         /\ req[r].dispatches[1].prompt = req[r].enhancedPrompt
    /\ (Done(r) /\ req[r].op = "generate" /\ {"saveUser", "read"} \subseteq req[r].failures) =>
         /\ req[r].status = 200 <=> req[r].upstream.kind = "ok"
         /\ req[r].status = 200 => req[r].responseData = req[r].upstream.payload.text
         /\ req[r].status # 200 => req[r].error = "API error"
         /\ (Quiet /\ (AllStorageFailed(r) \/ req[r].status # 200))
              => findMany(store, req[r].sid) = req[r].before

\* A Generate on a session that held a turn answered with the provider's text
\* although each of its storage operations failed.
C12_Witness ==
  \E r \in Slots :
    /\ Done(r) /\ req[r].op = "generate" /\ AllStorageFailed(r)
    /\ req[r].before # <<>> /\ req[r].status = 200
    /\ req[r].responseData = <<"reply">>

\* C13: whatever the provider branch and the shape of the body, a Generate whose
\* last fetch came back with a success status ends in a success result that
\* carries some text.
C13_NormalizationNeverThrows ==
  \A r \in Slots :
    (Done(r) /\ req[r].op = "generate" /\ req[r].upstream.kind = "ok") =>
      /\ req[r].status = 200
      /\ req[r].responseData # NoText

\* C14: when the fetch the handler waits for comes back with a non-success
\* status, Generate ends in an error that carries that status and the response
\* body, and the body becomes neither the result text nor an assistant turn.
C14_BadStatusShortCircuits ==
  \A r \in Slots :
    (Done(r) /\ req[r].op = "generate" /\ req[r].upstream.kind = "bad") =>
      /\ req[r].status = 500 /\ req[r].error = "API error"
      /\ req[r].errorStatus = req[r].upstream.status
      /\ req[r].errorBody = req[r].upstream.payload.text
      /\ req[r].responseData = NoText
      /\ req[r].asstNo = 0 /\ RowsBy(r, "assistant") = <<>>

\* A caller-supplied endpoint answered 404 with a body.
C14_Witness ==
  \E r \in Slots :
    /\ Done(r) /\ req[r].branch = "custom" /\ req[r].upstream = Bad(404)
    /\ req[r].errorStatus = 404 /\ req[r].errorBody # NoText

\* C15: a fetch that fails in transport ends the request as a fetch answered
\* with a non-success status does, in every branch: Generate returns an error
\* and has made no fallback dispatch.
C15_TransportFailureLikeBadStatus ==
  \A r \in Slots :
    (req[r].op = "generate" /\ req[r].upstream.kind \in {"bad", "throw"}) =>
      /\ Done(r) /\ req[r].status = 500
      /\ Len(req[r].dispatches) = 1

\* The place of the row numbered no among the rows of its session, 0 if the row
\* is not in the table.
PlaceOf(no) ==
  LET there == {i \in 1..Len(store) : store[i].no = no}
  IN IF there = {} THEN 0
     ELSE LET i == CHOOSE j \in there : TRUE
          IN Len(findMany(SubSeq(store, 1, i), store[i].sid))

\* C16: whatever the interleaving of the handlers, the assistant turn of a
\* Generate is created after its user turn and after its response was obtained,
\* and the session's history holds the user turn before the assistant turn.
C16_PairOrder ==
  \A r \in Slots :
    (req[r].op = "generate" /\ req[r].asstNo # 0) =>
      /\ req[r].upstream.kind = "ok"
      /\ req[r].userNo # 0 => req[r].userNo < req[r].asstNo
      /\ (PlaceOf(req[r].userNo) # 0 /\ PlaceOf(req[r].asstNo) # 0)
           => PlaceOf(req[r].userNo) < PlaceOf(req[r].asstNo)

\* C17: appends and clears on a session take effect one at a time: every step
\* leaves the history of a session as it was, or adds one turn at its end, or
\* removes all its turns, so that the history read back is the appends in the
\* order they were committed since the last clear.
C17_SerializedPerSession ==
  [][\A sid \in {A, B} :
       LET old == getFullMemory(store, sid, TRUE)
           new == getFullMemory(store', sid, TRUE)
       IN \/ new = old
          \/ new = <<>>
          \/ Len(new) = Len(old) + 1 /\ SubSeq(new, 1, Len(old)) = old]_vars

RoleLabel == [user |-> "USER", assistant |-> "ASSISTANT"]

RECURSIVE LineStart(_, _)
\* Where the line of turn i begins in the text: after the two tokens of the
\* opening label and, for each earlier turn, its label, ": ", content and "\n".
LineStart(memory, i) ==
  IF i = 1 THEN 3
  ELSE LineStart(memory, i - 1) + Len(memory[i - 1].content) + 3

\* C18: formatMemoryForPrompt gives the empty text exactly for the empty
\* sequence; otherwise the opening label, then for each turn in order its line
\* `ROLE: content`, the lines separated by "\n", then the closing label; and
\* equal sequences give equal texts whatever the session and the table.
C18_FormatIsPure ==
  \A r \in Slots :
    (req[r].op = "format" /\ Done(r)) =>
      LET m == req[r].memory
          out == req[r].memoryContext
          n == Len(m)
      IN /\ (out = NoText) <=> (m = <<>>)
         /\ m # <<>> =>
              /\ SubSeq(out, 1, 2) = <<"[Previous Conversation Context]", NL>>
              /\ \A i \in 1..n :
                   LET at == LineStart(m, i)
                       c == m[i].content
                   IN /\ out[at] = RoleLabel[m[i].role]
                      /\ out[at + 1] = ": "
                      /\ SubSeq(out, at + 2, at + 1 + Len(c)) = c
                      /\ out[at + 2 + Len(c)] = NL
              /\ Len(out) = LineStart(m, n) + Len(m[n].content) + 5
              /\ SubSeq(out, Len(out) - 3, Len(out)) = <<NL, "[End of Context]", NL, NL>>
         /\ \A r2 \in Slots :
              (req[r2].op = "format" /\ Done(r2) /\ req[r2].memory = m)
                => req[r2].memoryContext = out

\* The instances of two sessions, one of them with a turn in the table,
\* formatted the same two turns.
C18_Witness ==
  /\ Done(1) /\ Done(2) /\ req[1].op = "format" /\ req[2].op = "format"
  /\ req[1].sid # req[2].sid /\ store # <<>>
  /\ req[1].memory = req[2].memory /\ Len(req[1].memory) = 2
  /\ req[1].memory[1].role = "user" /\ req[1].memory[2].content = <<"a", NL, "b">>
  /\ req[1].memoryContext # NoText

\* The string a field holds.
FieldText(name, shape) == IF shape = "empty" THEN NoText ELSE <<name>>

\* The first field that is present, in the order choices[0].message.content,
\* content, response; the serialized payload when none is.
FirstPresent(payload) ==
  IF payload.choices # "absent" THEN FieldText("choices text", payload.choices)
  ELSE IF payload.content # "absent" THEN FieldText("content text", payload.content)
  ELSE IF payload.response # "absent" THEN FieldText("response text", payload.response)
  ELSE <<"JSON", payload.choices, payload.content, payload.response>>

\* C19: the text taken from the JSON answer of a custom provider is the first
\* present of choices[0].message.content, content, response, else the payload
\* serialized; a present field is not passed over, the empty string included.
\* This holds of the custom branch of the text route and of the custom format
\* of the local route.
C19_FirstPresentWins ==
  \A r \in Slots :
    (Done(r) /\ req[r].branch = "custom" /\ req[r].upstream.kind = "ok"
       /\ req[r].upstream.payload.json = "object") =>
      /\ req[r].status = 200
      /\ req[r].responseData = FirstPresent(req[r].upstream.payload)
      /\ ExtractLocalCustom(req[r].upstream.payload).data
           = FirstPresent(req[r].upstream.payload)

\* The caller supplied an entry with the requested id and this endpoint.
SuppliedUnderId(r, endpoint) ==
  \/ \E i \in 1..Len(req[r].catalog) :
       req[r].catalog[i].id = req[r].selectedApi /\ req[r].catalog[i].endpoint = endpoint
  \/ /\ req[r].cfg.present /\ req[r].cfg.id = req[r].selectedApi
     /\ req[r].cfg.endpoint = endpoint

\* C20: a request for a built-in id goes to the built-in provider, whatever
\* entry the caller supplied under that id; a request goes to a caller-supplied
\* endpoint only when the caller supplied an entry with exactly the requested id.
C20_ResolutionOrder ==
  \A r \in Slots : \A i \in 1..Len(req[r].dispatches) :
    LET target == req[r].dispatches[i].target
    IN /\ req[r].selectedApi \in BuiltIn => target = req[r].selectedApi
       /\ target \notin BuiltIn => SuppliedUnderId(r, target)

\* C21: a Generate makes at most two dispatches, the second one a fallback to
\* Pollinations after a first one to another target (never two to the same
\* provider), and a request that has returned makes no further dispatch.
C21_BoundedDispatch ==
  [][\A r \in Slots :
       /\ Len(req'[r].dispatches) <= 2
       /\ Len(req'[r].dispatches) = 2 =>
            /\ req'[r].dispatches[2].target = Pollinations
            /\ req'[r].dispatches[1].target # req'[r].dispatches[2].target
       /\ (Done(r) /\ req'[r].id = req[r].id) => req'[r].dispatches = req[r].dispatches]_vars

\* C22: the prompt a Generate dispatches is the one built from its single read
\* of the session memory, and the fallback dispatch carries that same prompt,
\* whatever became of the session's history meanwhile.
C22_PromptBuiltOnce ==
  \A r \in Slots :
    HasRead(r) =>
      /\ req[r].enhancedPrompt
           = BuildPrompt(req[r].prompt.text, req[r].memory, req[r].selectedApi)
      /\ \A i \in 1..Len(req[r].dispatches) :
           req[r].dispatches[i].prompt = req[r].enhancedPrompt

\* A request has fallen back to Pollinations, and a handler that began after it
\* has changed the history it had read.
C22_Witness ==
  \E r, r2 \in Slots :
    /\ req[r].op = "generate" /\ Len(req[r].dispatches) = 2
    /\ req[r].dispatches[2].target = Pollinations
    /\ Done(r2) /\ req[r2].id > req[r].id /\ req[r2].changed
    /\ getMemory(store, req[r].sid, ContextLimit, TRUE) # req[r].memory

\* C23: every row of the table has the role user or assistant.
C23_RoleInvariant ==
  \A i \in 1..Len(store) : store[i].role \in {"user", "assistant"}

\* The value an option passes to the provider: its own when supplied, else the
\* default.
PassedThrough(option, default) ==
  Option("number", IF option.has THEN option.value ELSE default)

\* C24: the body posted to openai, mistral or claude holds one user message, the
\* augmented prompt, and the temperature and max_tokens the caller supplied, 0
\* included; 0.7 and 1000 only when the caller supplied none.
C24_WireMapping ==
  \A r \in Slots : \A i \in 1..Len(req[r].wire) :
    LET body == req[r].wire[i]
    IN /\ body.messages = <<[role |-> "user", content |-> req[r].enhancedPrompt]>>
       /\ body.temperature = PassedThrough(req[r].temperature, DefaultTemperature)
       /\ body.max_tokens = PassedThrough(req[r].maxTokens, DefaultMaxTokens)

\* The turns of the rows of session sid, as the table holds them.
TurnsOf(s, sid) == ToMessages(SelectSeq(s, LAMBDA row : row.sid = sid))

\* C25: a step of a handler called with a non-empty session id works on that
\* session: it leaves the rows of every other session as they were, and the
\* turns it reads are turns of its own session only.
C25_SessionIsolation ==
  [][\A r \in Slots :
       (req'[r] # req[r] /\ Truthy(req'[r].sessionId)) =>
         /\ req'[r].sid \in {NoId, req'[r].sessionId}
         /\ \A sid \in {A, B} \ {req'[r].sessionId} :
              SelectSeq(store', LAMBDA row : row.sid = sid)
                = SelectSeq(store, LAMBDA row : row.sid = sid)
         /\ (req'[r].op = "get" /\ req'[r].failures = {}) =>
              req'[r].memory = TurnsOf(store, req'[r].sessionId)
         /\ (req'[r].op = "generate" /\ req[r].pc = "saved" /\ req'[r].failures = {}) =>
              req'[r].memory = Take(TurnsOf(store, req'[r].sessionId), ContextLimit)]_vars

\* A Generate on A has read one turn, its own, while the table held an older
\* turn of B.
C25_Witness ==
  \E r \in Slots :
    /\ HasRead(r) /\ req[r].sid = A /\ Len(req[r].memory) = 1
    /\ \E i \in 1..Len(store) : store[i].sid = B /\ store[i].no < req[r].userNo

\* C26: a Generate called with a session id keeps to that session through its
\* awaits, whatever currentMemory becomes meanwhile: the rows it creates are
\* rows of its session, and it returns its session id.
C26_RequestKeepsSession ==
  \A r \in Slots :
    (req[r].op = "generate" /\ Truthy(req[r].sessionId) /\ req[r].sid # NoId) =>
      /\ req[r].sid = req[r].sessionId
      /\ \A i \in 1..Len(store) :
           store[i].by = req[r].id => store[i].sid = req[r].sessionId
      /\ (Done(r) /\ req[r].status = 200) => req[r].sessionId \in returned

\* A Generate on A has saved its assistant turn and returned after a save on B,
\* made between its two saves, had replaced currentMemory.
C26_Witness ==
  \E r, r2 \in Slots :
    /\ Done(r) /\ req[r].op = "generate" /\ req[r].sid = A /\ req[r].status = 200
    /\ req[r2].op = "save" /\ req[r2].sid = B
    /\ req[r].userNo # 0 /\ req[r].userNo < req[r2].userNo
    /\ req[r2].userNo < req[r].asstNo
    /\ currentMemory = B
    /\ \E i \in 1..Len(store) : store[i].no = req[r].asstNo /\ store[i].sid = A

\* The turns of the given role among the first k of a history.
CountRole(history, k, role) == Cardinality({i \in 1..k : history[i].role = role})

\* C27: in every state, every prefix of the history of a session holds at least
\* as many user turns as assistant turns.
C27_UserBeforeAssistant ==
  \A sid \in {A, B} :
    LET history == getFullMemory(store, sid, TRUE)
    IN \A k \in 0..Len(history) :
         CountRole(history, k, "user") >= CountRole(history, k, "assistant")

\* C28: the context a Generate reads never holds more than 10 turns; once the
\* session holds 10 turns, its first 10 turns stay the same as long as it is not
\* cleared, and they are the context every Generate reads.
C28_FrozenContext ==
  [][LET old == getFullMemory(store, A, TRUE)
         new == getFullMemory(store', A, TRUE)
     IN /\ (Len(old) >= ContextLimit /\ new # <<>>)
             => Take(new, ContextLimit) = Take(old, ContextLimit)
        /\ \A r \in Slots :
             (req[r].pc = "saved" /\ req'[r].pc # "saved") =>
               /\ Len(req'[r].memory) <= ContextLimit
               /\ Len(old) >= ContextLimit => req'[r].memory = Take(old, ContextLimit)]_vars

\* C29: a Generate without provider id dispatches to Pollinations the prompt
\* that a Generate with the id 'pollinations' builds from the same prompt and
\* the same context.
C29_DefaultSelectionSamePrompt ==
  \A r \in Slots :
    (HasRead(r) /\ req[r].selectedApi \in {NoApi, Pollinations}) =>
      /\ req[r].dispatches # <<>>
      /\ req[r].dispatches[1].target = Pollinations
      /\ req[r].dispatches[1].prompt
           = BuildPrompt(req[r].prompt.text, req[r].memory, Pollinations)

\* The target of the fetch whose answer became the result text.
ServedBy(r) == req[r].dispatches[Len(req[r].dispatches)].target

\* C30: in a successful result of a Generate that named a provider, the
\* reported selectedApi is the provider that served the text: the built-in
\* provider of that id, or the caller's entry under that id; so too after a
\* fallback to Pollinations.
C30_ReportedProviderServed ==
  \A r \in Slots :
    (Done(r) /\ req[r].op = "generate" /\ req[r].status = 200
       /\ req[r].selectedApi # NoApi) =>
      IF ServedBy(r) \in BuiltIn THEN ResultSelectedApi(r) = ServedBy(r)
      ELSE SuppliedUnderId(r, ServedBy(r))

====
